---- MODULE Spec2Model ----
(***************************************************************************)
(* Model of src/api/huobi/client.rs: the credential-bound Client with its  *)
(* get, get_signed and post_signed operations, and the canonicalization,   *)
(* percent-encoding and signing functions they call.                       *)
(*                                                                         *)
(* A Rust String is modelled as a sequence of one-character strings, one   *)
(* per byte; Code gives the byte value, which decides ordering and the     *)
(* %XX escapes.  Only bytes 9, 10 and 32..126 occur in the model; byte 96  *)
(* (the grave accent) is written "grave".                                  *)
(***************************************************************************)
EXTENDS Integers, Sequences, FiniteSets, TLC

VARIABLES
    api_key, secret_key,          \* the Client's fields
    params,                       \* the parameter map the caller is filling
    call,                         \* the locals of the call that was made
    request,                      \* what the call handed to the transport
    log,                          \* the records the call logged, in order
    result,                       \* what the call returned
    other, canon,                 \* a second map, and the canonical form of both
    source, encoded               \* a string and its percent-encoding

vars == <<api_key, secret_key, params, call, request, log, result,
          other, canon, source, encoded>>

\* the variables of the runs that exercise the pure functions alone
pureVars == <<other, canon, source, encoded>>

\* the variables of a client call
callVars == <<call, request, log, result>>

(***************************************************************************)
(* Bounds of the model.                                                    *)
(***************************************************************************)
\* most entries a caller puts in a parameter map before a client call
MaxParams == 2
\* most entries of each of the two maps compared by the canonicalization runs
MaxEntries == 2
\* longest input string handed to percent_encode in the encoding runs
MaxLen == 3

(***************************************************************************)
(* Bytes and strings.                                                      *)
(***************************************************************************)
\* the printable ASCII characters, in byte order, starting at byte 32
Printable ==
    <<" ", "!", "\"", "#", "$", "%", "&", "'", "(", ")", "*", "+", ",", "-", ".", "/",
      "0", "1", "2", "3", "4", "5", "6", "7", "8", "9", ":", ";", "<", "=", ">", "?",
      "@", "A", "B", "C", "D", "E", "F", "G", "H", "I", "J", "K", "L", "M", "N", "O",
      "P", "Q", "R", "S", "T", "U", "V", "W", "X", "Y", "Z", "[", "\\", "]", "^", "_",
      "grave", "a", "b", "c", "d", "e", "f", "g", "h", "i", "j", "k", "l", "m", "n", "o",
      "p", "q", "r", "s", "t", "u", "v", "w", "x", "y", "z", "{", "|", "}", "~">>

Chars == {Printable[i] : i \in DOMAIN Printable} \cup {"\t", "\n"}

\* the byte value of a character
Code ==
    [c \in Chars |->
        IF c = "\t" THEN 9
        ELSE IF c = "\n" THEN 10
        ELSE 31 + (CHOOSE i \in DOMAIN Printable : Printable[i] = c)]

RECURSIVE ConcatRange(_, _, _)
\* ss[lo] \o ... \o ss[hi], by halves
ConcatRange(ss, lo, hi) ==
    IF lo > hi THEN <<>>
    ELSE IF lo = hi THEN ss[lo]
    ELSE LET mid == (lo + hi) \div 2
         IN  ConcatRange(ss, lo, mid) \o ConcatRange(ss, mid + 1, hi)

\* the concatenation of a sequence of strings
Concat(ss) == ConcatRange(ss, 1, Len(ss))

\* [String]::join(sep): sep between each two neighbours
Join(ss, sep) ==
    Concat([i \in 1..(2 * Len(ss) - 1) |-> IF i % 2 = 1 THEN ss[(i + 1) \div 2] ELSE sep])

\* a < b in the order of String (byte-wise lexicographic): at the first
\* position where they differ a has the smaller byte, or a is a proper
\* prefix of b
StrLess(a, b) ==
    \E k \in 0..Len(a) :
        /\ k <= Len(b)
        /\ SubSeq(a, 1, k) = SubSeq(b, 1, k)
        /\ \/ k = Len(a) /\ k < Len(b)
           \/ k < Len(a) /\ k < Len(b) /\ Code[a[k + 1]] < Code[b[k + 1]]

\* s occurs in t as a contiguous substring
Occurs(s, t) ==
    \E i \in 0..(Len(t) - Len(s)) : SubSeq(t, i + 1, i + Len(s)) = s

(***************************************************************************)
(* percent_encode (client.rs 208-215).  CUSTOM_ENCODE_SET is the           *)
(* percent-encoding crate's USERINFO_ENCODE_SET with '+' and ',' added.    *)
(* USERINFO_ENCODE_SET is, by that crate's definition, every byte below    *)
(* 0x20 or above 0x7E, and                                                 *)
(*   space " # < > (QUERY), grave ? { } (DEFAULT), % / (PATH_SEGMENT),     *)
(*   : ; = @ [ \ ] ^ | (USERINFO).                                         *)
(* utf8_percent_encode writes each byte of the set as %XX, upper-case hex, *)
(* and every other byte unchanged.                                         *)
(***************************************************************************)
HexDigits ==
    <<"0", "1", "2", "3", "4", "5", "6", "7", "8", "9", "A", "B", "C", "D", "E", "F">>

USERINFO_ENCODE_SET ==
    {c \in Chars : Code[c] < 32 \/ Code[c] > 126}
        \cup {" ", "\"", "#", "<", ">"}
        \cup {"grave", "?", "{", "}"}
        \cup {"%", "/"}
        \cup {":", ";", "=", "@", "[", "\\", "]", "^", "|"}

CUSTOM_ENCODE_SET == USERINFO_ENCODE_SET \cup {"+", ","}

\* the %XX escape of one byte
percent_encode_byte(c) ==
    <<"%", HexDigits[(Code[c] \div 16) + 1], HexDigits[(Code[c] % 16) + 1]>>

utf8_percent_encode(input, encode_set) ==
    Concat([i \in DOMAIN input |->
              IF input[i] \in encode_set
                THEN percent_encode_byte(input[i])
                ELSE <<input[i]>>])

percent_encode(src) == utf8_percent_encode(src, CUSTOM_ENCODE_SET)

(***************************************************************************)
(* BTreeMap<String, String>: the entries <<key, value>> in ascending key   *)
(* order, which is the order its iterators yield them in.                  *)
(***************************************************************************)
EmptyMap == <<>>

Keys(m) == {m[i][1] : i \in DOMAIN m}

Entries(m) == {m[i] : i \in DOMAIN m}

\* an insert that keeps the entries in the order the keys were first
\* inserted in, as a Vec of pairs or an insertion-ordered map would
BTreeInsert_insertion_order(m, k, v) ==
    IF k \in Keys(m)
    THEN [i \in DOMAIN m |-> IF m[i][1] = k THEN <<k, v>> ELSE m[i]]
    ELSE Append(m, <<k, v>>)

\* BTreeMap::insert: replaces the value of a key that is present, and puts
\* a new key at its place in key order
BTreeInsert(m, k, v) ==
    IF k \in Keys(m)
    THEN [i \in DOMAIN m |-> IF m[i][1] = k THEN <<k, v>> ELSE m[i]]
    ELSE LET n == Cardinality({i \in DOMAIN m : StrLess(m[i][1], k)})
         IN  SubSeq(m, 1, n) \o <<(<<k, v>>)>> \o SubSeq(m, n + 1, Len(m))

(***************************************************************************)
(* build_query_string (client.rs 190-196).                                 *)
(***************************************************************************)
\* the values written as they are, as Client::build_request writes them
build_query_string_unencoded(parameters) ==
    Join([i \in DOMAIN parameters |->
            parameters[i][1] \o <<"=">> \o parameters[i][2]],
         <<"&">>)

build_query_string(parameters) ==
    Join([i \in DOMAIN parameters |->
            parameters[i][1] \o <<"=">> \o percent_encode(parameters[i][2])],
         <<"&">>)

(***************************************************************************)
(* The query that Client::get builds in place (client.rs 44-49): each      *)
(* entry pushed as key=value&, then String::pop, which removes the last    *)
(* character if there is one.                                              *)
(***************************************************************************)
StringPop(s) == IF s = <<>> THEN <<>> ELSE SubSeq(s, 1, Len(s) - 1)

request_o(parameters) ==
    StringPop(Concat([i \in DOMAIN parameters |->
                        parameters[i][1] \o <<"=">> \o parameters[i][2] \o <<"&">>]))

(***************************************************************************)
(* get_timestamp (client.rs 217-222): the instant read from the clock,     *)
(* formatted "%Y-%m-%dT%H:%M:%S".  An instant is a record of its UTC       *)
(* calendar fields.                                                        *)
(***************************************************************************)
Digit(d) == HexDigits[d + 1]

Pad2(n) == <<Digit((n \div 10) % 10), Digit(n % 10)>>

Pad4(n) == Pad2(n \div 100) \o Pad2(n % 100)

get_timestamp(utc_time) ==
    Pad4(utc_time.year) \o <<"-">> \o Pad2(utc_time.month) \o <<"-">> \o Pad2(utc_time.day)
        \o <<"T">> \o Pad2(utc_time.hour) \o <<":">> \o Pad2(utc_time.minute)
        \o <<":">> \o Pad2(utc_time.second)

(***************************************************************************)
(* sign_hmac_sha256_base64 (client.rs 198-206).  hmac_sign stands for      *)
(* ring's HMAC-SHA256: a keyed digest of the message, here two bytes wide  *)
(* and computed by position-weighted checksums of key and message.  BASE64 *)
(* is the standard alphabet with '=' padding, as data_encoding::BASE64.    *)
(***************************************************************************)
RECURSIVE WeightedSum(_, _, _, _)
\* the sum over i in lo..hi of the byte s[i] times (a * i + 1), by halves
WeightedSum(s, a, lo, hi) ==
    IF lo > hi THEN 0
    ELSE IF lo = hi THEN Code[s[lo]] * (a * lo + 1)
    ELSE LET mid == (lo + hi) \div 2
         IN  WeightedSum(s, a, lo, mid) + WeightedSum(s, a, mid + 1, hi)

Checksum(s, a) == (Len(s) + WeightedSum(s, a, 1, Len(s))) % 256

hmac_sign(key, message) ==
    <<(Checksum(key, 2) * 7 + Checksum(message, 2)) % 256,
      (Checksum(key, 6) * 13 + Checksum(message, 4) + 1) % 256>>

Base64Alphabet ==
    <<"A", "B", "C", "D", "E", "F", "G", "H", "I", "J", "K", "L", "M", "N", "O", "P",
      "Q", "R", "S", "T", "U", "V", "W", "X", "Y", "Z", "a", "b", "c", "d", "e", "f",
      "g", "h", "i", "j", "k", "l", "m", "n", "o", "p", "q", "r", "s", "t", "u", "v",
      "w", "x", "y", "z", "0", "1", "2", "3", "4", "5", "6", "7", "8", "9", "+", "/">>

Sextet(n) == Base64Alphabet[n + 1]

RECURSIVE BASE64_encode(_)
BASE64_encode(bytes) ==
    IF bytes = <<>> THEN <<>>
    ELSE IF Len(bytes) = 1
    THEN <<Sextet(bytes[1] \div 4), Sextet((bytes[1] % 4) * 16), "=", "=">>
    ELSE IF Len(bytes) = 2
    THEN <<Sextet(bytes[1] \div 4),
           Sextet((bytes[1] % 4) * 16 + bytes[2] \div 16),
           Sextet((bytes[2] % 16) * 4), "=">>
    ELSE <<Sextet(bytes[1] \div 4),
           Sextet((bytes[1] % 4) * 16 + bytes[2] \div 16),
           Sextet((bytes[2] % 16) * 4 + bytes[3] \div 64),
           Sextet(bytes[3] % 64)>>
         \o BASE64_encode(SubSeq(bytes, 4, Len(bytes)))

sign_hmac_sha256_base64(secret, digest) == BASE64_encode(hmac_sign(secret, digest))

(***************************************************************************)
(* build_headers (client.rs 224-239): the header map as a function from    *)
(* header name to value.                                                   *)
(***************************************************************************)
NoHeaders == [h \in {} |-> ""]

build_headers(post_method) ==
    IF post_method
    THEN [h \in {"user-agent", "content-type", "accept"} |->
            IF h = "user-agent" THEN "rs" ELSE "application/json"]
    ELSE [h \in {"user-agent", "content-type"} |->
            IF h = "user-agent" THEN "rs" ELSE "application/x-www-form-urlencoded"]

(***************************************************************************)
(* {:?} formatting of the values the client logs: a string is quoted with  *)
(* '"', '\', newline and tab escaped; a BTreeMap is {"k": "v", ...}.       *)
(***************************************************************************)
EscapeDebug(s) ==
    Concat([i \in DOMAIN s |->
              CASE s[i] = "\"" -> <<"\\", "\"">>
                [] s[i] = "\\" -> <<"\\", "\\">>
                [] s[i] = "\n" -> <<"\\", "n">>
                [] s[i] = "\t" -> <<"\\", "t">>
                [] OTHER -> <<s[i]>>])

DebugStr(s) == <<"\"">> \o EscapeDebug(s) \o <<"\"">>

DebugMap(m) ==
    <<"{">>
        \o Join([i \in DOMAIN m |-> DebugStr(m[i][1]) \o <<":", " ">> \o DebugStr(m[i][2])],
                <<",", " ">>)
        \o <<"}">>

(***************************************************************************)
(* The error envelope, APIErrorResponse of models.rs: an optional status   *)
(* with the error code and message.  An absent field is None.  The         *)
(* response bodies of the model and what each parses to.                   *)
(***************************************************************************)
None == <<"None">>

Some(x) == <<"Some", x>>

BodyError == <<"{", "\"", "s", "t", "a", "t", "u", "s", "\"", ":", "\"", "e", "r", "r", "o", "r", "\"", ",", "\"", "e", "r", "r", "-", "c", "o", "d", "e", "\"", ":", "\"", "x", "\"", ",", "\"", "e", "r", "r", "-", "m", "s", "g", "\"", ":", "\"", "y", "\"", "}">>

BodyOk == <<"{", "\"", "s", "t", "a", "t", "u", "s", "\"", ":", "\"", "o", "k", "\"", ",", "\"", "d", "a", "t", "a", "\"", ":", "[", "]", "}">>

BodyNoStatus == <<"{", "\"", "d", "a", "t", "a", "\"", ":", "[", "]", "}">>

BodyNotJson == <<"<", "h", "t", "m", "l", ">">>

Bodies == {BodyError, BodyOk, BodyNoStatus, BodyNotJson}

\* serde_json::from_str::<APIErrorResponse<Value>>: Err for a body that is
\* not an envelope, else the envelope
ParseEnvelope(body) ==
    CASE body = BodyError ->
            [parsed |-> TRUE, status |-> Some(<<"e", "r", "r", "o", "r">>),
             err_code |-> Some(<<"x">>), err_msg |-> Some(<<"y">>)]
      [] body = BodyOk ->
            [parsed |-> TRUE, status |-> Some(<<"o", "k">>), err_code |-> None, err_msg |-> None]
      [] body = BodyNoStatus ->
            [parsed |-> TRUE, status |-> None, err_code |-> None, err_msg |-> None]
      [] OTHER ->
            [parsed |-> FALSE, status |-> None, err_code |-> None, err_msg |-> None]

DebugOption(o) ==
    IF o = None THEN <<"N", "o", "n", "e">> ELSE <<"S", "o", "m", "e", "(">> \o DebugStr(o[2]) \o <<")">>

\* {:?} of the envelope
DebugEnvelope(e) ==
    <<"A", "P", "I", "E", "r", "r", "o", "r", "R", "e", "s", "p", "o", "n", "s", "e", " ", "{", " ", "s", "t", "a", "t", "u", "s", ":", " ">> \o DebugOption(e.status)
        \o <<",", " ", "e", "r", "r", "_", "c", "o", "d", "e", ":", " ">> \o DebugOption(e.err_code)
        \o <<",", " ", "e", "r", "r", "_", "m", "s", "g", ":", " ">> \o DebugOption(e.err_msg) \o <<" ", "}">>

(***************************************************************************)
(* What the transport gives back for a dispatched request: a failure of    *)
(* the send, a failure of reading the body, or the body text.              *)
(***************************************************************************)
Responses ==
    {[kind |-> "send_failed", text |-> <<>>], [kind |-> "read_failed", text |-> <<>>]}
        \cup {[kind |-> "body", text |-> b] : b \in Bodies}

(***************************************************************************)
(* The result of a call, APIResult<String>.                                *)
(***************************************************************************)
NoResult == [kind |-> "none", value |-> <<>>]

Ok(body) == [kind |-> "Ok", value |-> body]

TransportError == [kind |-> "TransportError", value |-> <<>>]

DeserializeError == [kind |-> "DeserializeError", value |-> <<>>]

ApiError(msg) == [kind |-> "ApiError", value |-> msg]

\* any status that is present taken for an error
check_for_errors_any_status(body) ==
    LET err_response == ParseEnvelope(body)
    IN  IF ~err_response.parsed THEN DeserializeError
        ELSE IF err_response.status # None
        THEN ApiError(<<"r", "e", "s", "u", "l", "t", " ", "d", "u", "m", "p", ":", " ">> \o DebugEnvelope(err_response))
        ELSE Ok(body)

\* "check for errors" (client.rs 56-73, and again 111-126 and 169-186)
check_for_errors(body) ==
    LET err_response == ParseEnvelope(body)
    IN  IF ~err_response.parsed THEN DeserializeError
        ELSE IF err_response.status = Some(<<"e", "r", "r", "o", "r">>)
        THEN ApiError(<<"r", "e", "s", "u", "l", "t", " ", "d", "u", "m", "p", ":", " ">> \o DebugEnvelope(err_response))
        ELSE Ok(body)

\* the ? on the send and on text(), then the check for errors
call_result(resp) ==
    IF resp.kind # "body" THEN TransportError ELSE check_for_errors(resp.text)

(***************************************************************************)
(* Log records: the level and the formatted text.                          *)
(***************************************************************************)
Log(level, text) == [level |-> level, text |-> text]

\* the record each operation writes once the body has parsed as an envelope
ErrResponseLog(level, err_response) ==
    Log(level, <<"e", "r", "r", "_", "r", "e", "s", "p", "o", "n", "s", "e", ":", " ">> \o DebugEnvelope(err_response))

\* the info! of the None arm of the match on status (client.rs 70, 123, 183)
NoneArmLog(err_response) ==
    IF err_response.status = None
    THEN <<ErrResponseLog("info", err_response)>>
    ELSE <<>>

(***************************************************************************)
(* The inputs of the model.                                                *)
(***************************************************************************)
ApiKeys == {<<"a", "k", "-", "1">>, <<"k", "+", "2">>}

\* no secret occurs in any other input, constant or base64 text of the model
SecretKeys == {<<"s", "_", "1">>, <<"s", "_", "2">>}

Endpoints == {<<"/", "v", "1", "/", "o", "r", "d", "e", "r", "/", "o", "r", "d", "e", "r", "s">>, <<"/", "m", "a", "r", "k", "e", "t", "/", "t", "i", "c", "k", "e", "r", "s">>}

AccessKeyId == <<"A", "c", "c", "e", "s", "s", "K", "e", "y", "I", "d">>

SignatureMethod == <<"S", "i", "g", "n", "a", "t", "u", "r", "e", "M", "e", "t", "h", "o", "d">>

SignatureVersion == <<"S", "i", "g", "n", "a", "t", "u", "r", "e", "V", "e", "r", "s", "i", "o", "n">>

Timestamp == <<"T", "i", "m", "e", "s", "t", "a", "m", "p">>

AuthKeys == {AccessKeyId, SignatureMethod, SignatureVersion, Timestamp}

\* the keys a caller passes: two of its own and two that collide with the
\* injected ones
ParamKeys == {<<"s", "y", "m", "b", "o", "l">>, <<"t", "y", "p", "e">>, AccessKeyId, Timestamp}

ParamValues == {<<"b", "t", "c", "u", "s", "d", "t">>, <<"a", "+", "b", ",", " ", "c", "&", "d">>}

\* the instants the clock is read at
Instants ==
    {[year |-> 2021, month |-> 1, day |-> 1, hour |-> 0, minute |-> 0, second |-> 0],
     [year |-> 2026, month |-> 11, day |-> 30, hour |-> 23, minute |-> 59, second |-> 7]}

\* the payloads of post_signed: the value's JSON text, or a value whose
\* serialization fails
Payloads ==
    {[serializable |-> TRUE, json |-> <<"{", "\"", "a", "m", "o", "u", "n", "t", "\"", ":", "\"", "1", "\"", "}">>],
     [serializable |-> FALSE, json |-> <<>>]}

(***************************************************************************)
(* The client's operations.                                                *)
(***************************************************************************)
HUOBI_API_HOST == <<"a", "p", "i", ".", "h", "u", "o", "b", "i", ".", "p", "r", "o">>

NoCall ==
    [op |-> "none", endpoint |-> <<>>, utc_time |-> None, params |-> EmptyMap,
     query |-> <<>>, message |-> <<>>, signature |-> <<>>, url |-> <<>>,
     sent |-> FALSE, response |-> None]

NoRequest == [method |-> "none", url |-> <<>>, headers |-> NoHeaders, body |-> None]

\* the inserts written as entry(key).or_insert(value), which keeps a value
\* the caller has put under the key
insert_auth_or_insert(p, key, timestamp) ==
    LET or_insert(m, k, v) == IF k \in Keys(m) THEN m ELSE BTreeInsert(m, k, v)
    IN  or_insert(
            or_insert(
                or_insert(
                    or_insert(p, AccessKeyId, key),
                    SignatureMethod, <<"H", "m", "a", "c", "S", "H", "A", "2", "5", "6">>),
                SignatureVersion, <<"2">>),
            Timestamp, timestamp)

\* the four inserts that open get_signed and post_signed (client.rs 81-84, 135-138)
insert_auth(p, key, timestamp) ==
    BTreeInsert(
        BTreeInsert(
            BTreeInsert(
                BTreeInsert(p, AccessKeyId, key),
                SignatureMethod, <<"H", "m", "a", "c", "S", "H", "A", "2", "5", "6">>),
            SignatureVersion, <<"2">>),
        Timestamp, timestamp)

\* the message handed to sign_hmac_sha256_base64 (client.rs 91, 143)
sign_message(method, endpoint, query) ==
    method \o <<"\n">> \o HUOBI_API_HOST \o <<"\n">> \o endpoint \o <<"\n">> \o query

\* the request target of Client::get (client.rs 51)
get_url(endpoint, query) ==
    <<"h", "t", "t", "p", "s", ":", "/", "/">> \o HUOBI_API_HOST \o endpoint \o <<"?">> \o query

\* the signature percent-encoded a second time
signed_url_encoded_twice(endpoint, query, signature) ==
    <<"h", "t", "t", "p", "s", ":", "/", "/">> \o HUOBI_API_HOST \o endpoint \o <<"?">> \o query
        \o <<"&", "S", "i", "g", "n", "a", "t", "u", "r", "e", "=">> \o percent_encode(percent_encode(signature))

\* the request target of get_signed and post_signed (client.rs 95-101, 147-153)
signed_url(endpoint, query, signature) ==
    <<"h", "t", "t", "p", "s", ":", "/", "/">> \o HUOBI_API_HOST \o endpoint \o <<"?">> \o query
        \o <<"&", "S", "i", "g", "n", "a", "t", "u", "r", "e", "=">> \o percent_encode(signature)

\* the records Client::get logs (client.rs 59, 70)
get_log(resp) ==
    LET err_response == ParseEnvelope(resp.text)
    IN  IF resp.kind # "body" \/ ~err_response.parsed THEN <<>>
        ELSE IF err_response.status = Some(<<"e", "r", "r", "o", "r">>)
        THEN <<ErrResponseLog("info", err_response)>>
        ELSE <<ErrResponseLog("info", err_response)>> \o NoneArmLog(err_response)

\* the records of get_signed with one more in front, of the key and the
\* message of the signature
get_signed_log_signing_inputs(p, url, resp) ==
    LET err_response == ParseEnvelope(resp.text)
    IN  <<Log("debug", <<"[", "H", "u", "o", "b", "i", "]", " ", "s", "i", "g", "n", ":", " ">> \o DebugStr(secret_key) \o <<" ">> \o DebugStr(call'.message)),
          Log("debug", <<"[", "H", "u", "o", "b", "i", "]", " ", "M", "a", "k", "e", " ", "G", "E", "T", " ", "r", "e", "q", "u", "e", "s", "t", " ", "p", "a", "r", "a", "m", "s", ":", " ">> \o DebugMap(p)),
          Log("debug", <<"[", "H", "u", "o", "b", "i", "]", " ", "M", "a", "k", "e", " ", "G", "E", "T", " ", "s", "i", "g", "n", "e", "d", " ", "r", "e", "q", "u", "e", "s", "t", ":", " ">> \o DebugStr(url))>>
        \o (IF resp.kind # "body" THEN <<>>
            ELSE <<Log("debug", <<"[", "H", "u", "o", "b", "i", "]", " ", "G", "E", "T", " ", "r", "e", "s", "p", "o", "n", "c", "e", " ", "b", "o", "d", "y", ":", " ">> \o DebugStr(resp.text))>>
                 \o (IF ~err_response.parsed \/ err_response.status = Some(<<"e", "r", "r", "o", "r">>)
                       THEN <<>>
                       ELSE NoneArmLog(err_response)))

\* the records get_signed logs (client.rs 86, 103, 108, 123)
get_signed_log(p, url, resp) ==
    LET err_response == ParseEnvelope(resp.text)
    IN  <<Log("debug", <<"[", "H", "u", "o", "b", "i", "]", " ", "M", "a", "k", "e", " ", "G", "E", "T", " ", "r", "e", "q", "u", "e", "s", "t", " ", "p", "a", "r", "a", "m", "s", ":", " ">> \o DebugMap(p)),
          Log("debug", <<"[", "H", "u", "o", "b", "i", "]", " ", "M", "a", "k", "e", " ", "G", "E", "T", " ", "s", "i", "g", "n", "e", "d", " ", "r", "e", "q", "u", "e", "s", "t", ":", " ">> \o DebugStr(url))>>
        \o (IF resp.kind # "body" THEN <<>>
            ELSE <<Log("debug", <<"[", "H", "u", "o", "b", "i", "]", " ", "G", "E", "T", " ", "r", "e", "s", "p", "o", "n", "c", "e", " ", "b", "o", "d", "y", ":", " ">> \o DebugStr(resp.text))>>
                 \o (IF ~err_response.parsed \/ err_response.status = Some(<<"e", "r", "r", "o", "r">>)
                       THEN <<>>
                       ELSE NoneArmLog(err_response)))

\* the records post_signed logs (client.rs 155, 166, 172, 183)
post_signed_log(url, sent, resp) ==
    LET err_response == ParseEnvelope(resp.text)
    IN  <<Log("debug", <<"[", "H", "u", "o", "b", "i", "]", " ", "M", "a", "k", "e", " ", "P", "O", "S", "T", " ", "s", "i", "g", "n", "e", "d", " ", "r", "e", "q", "u", "e", "s", "t", ":", " ">> \o DebugStr(url))>>
        \o (IF ~sent \/ resp.kind # "body" THEN <<>>
            ELSE <<Log("debug", <<"[", "H", "u", "o", "b", "i", "]", " ", "P", "O", "S", "T", " ", "r", "e", "s", "p", "o", "n", "c", "e", " ", "b", "o", "d", "y", ":", " ">> \o DebugStr(resp.text))>>
                 \o (IF ~err_response.parsed THEN <<>>
                     ELSE <<ErrResponseLog("debug", err_response)>>
                          \o (IF err_response.status = Some(<<"e", "r", "r", "o", "r">>)
                                THEN <<>>
                                ELSE NoneArmLog(err_response))))

\* Client::get (client.rs 43-74)
get(endpoint) ==
    \E query \in {request_o(params)} :
    \E url \in {get_url(endpoint, query)} :
    \E resp \in Responses :
        /\ call' = [NoCall EXCEPT !.op = "get", !.endpoint = endpoint,
                                  !.params = params, !.query = query, !.url = url,
                                  !.sent = TRUE, !.response = resp]
        /\ request' = [method |-> "GET", url |-> url, headers |-> NoHeaders,
                       body |-> None]
        /\ log' = get_log(resp)
        /\ result' = call_result(resp)
        /\ UNCHANGED <<api_key, secret_key, params, pureVars>>

\* Client::get_signed (client.rs 76-127)
get_signed(endpoint, utc_time) ==
    \E timestamp \in {get_timestamp(utc_time)} :
    \E p \in {insert_auth(params, api_key, timestamp)} :
    \E query \in {build_query_string(p)} :
    \E message \in {sign_message(<<"G", "E", "T">>, endpoint, query)} :
    \E signature \in {sign_hmac_sha256_base64(secret_key, message)} :
    \E url \in {signed_url(endpoint, query, signature)} :
    \E resp \in Responses :
        /\ call' = [op |-> "get_signed", endpoint |-> endpoint, utc_time |-> utc_time,
                    params |-> p, query |-> query, message |-> message,
                    signature |-> signature, url |-> url, sent |-> TRUE,
                    response |-> resp]
        /\ request' = [method |-> "GET", url |-> url, headers |-> NoHeaders,
                       body |-> None]
        /\ log' = get_signed_log(p, url, resp)
        /\ result' = call_result(resp)
        /\ UNCHANGED <<api_key, secret_key, params, pureVars>>

\* Client::post_signed (client.rs 129-187).  A payload that does not
\* serialize makes send() fail before anything is dispatched.
post_signed(endpoint, utc_time, payload) ==
    \E timestamp \in {get_timestamp(utc_time)} :
    \E p \in {insert_auth(params, api_key, timestamp)} :
    \E query \in {build_query_string(p)} :
    \E message \in {sign_message(<<"P", "O", "S", "T">>, endpoint, query)} :
    \E signature \in {sign_hmac_sha256_base64(secret_key, message)} :
    \E url \in {signed_url(endpoint, query, signature)} :
    \E resp \in Responses :
        /\ ~payload.serializable => resp.kind = "send_failed"
        /\ call' = [op |-> "post_signed", endpoint |-> endpoint, utc_time |-> utc_time,
                    params |-> p, query |-> query, message |-> message,
                    signature |-> signature, url |-> url,
                    sent |-> payload.serializable, response |-> resp]
        /\ request' = IF payload.serializable
                        THEN [method |-> "POST", url |-> url,
                              headers |-> build_headers(TRUE),
                              body |-> Some(payload.json)]
                        ELSE NoRequest
        /\ log' = post_signed_log(url, payload.serializable, resp)
        /\ result' = IF payload.serializable THEN call_result(resp) ELSE TransportError
        /\ UNCHANGED <<api_key, secret_key, params, pureVars>>

(***************************************************************************)
(* The caller: it fills a parameter map, entry by entry, and calls the     *)
(* client with it.                                                         *)
(***************************************************************************)
InsertParam ==
    \E k \in ParamKeys, v \in ParamValues :
        /\ call = NoCall
        /\ k \in Keys(params) \/ Len(params) < MaxParams
        /\ params' = BTreeInsert(params, k, v)
        /\ params' # params
        /\ UNCHANGED <<api_key, secret_key, callVars, pureVars>>

CallGet ==
    /\ call = NoCall
    /\ \E e \in Endpoints : get(e)

CallGetSigned ==
    /\ call = NoCall
    /\ \E e \in Endpoints, t \in Instants : get_signed(e, t)

CallPostSigned ==
    /\ call = NoCall
    /\ \E e \in Endpoints, t \in Instants, payload \in Payloads :
            post_signed(e, t, payload)

\* the call has returned: its locals are dropped, and the caller starts on
\* the parameters of its next request
Return ==
    /\ call # NoCall
    /\ params' = EmptyMap
    /\ call' = NoCall
    /\ request' = NoRequest
    /\ log' = <<>>
    /\ result' = NoResult
    /\ UNCHANGED <<api_key, secret_key, pureVars>>

\* Client::new (client.rs 25-30), before any call
Init ==
    /\ api_key \in ApiKeys
    /\ secret_key \in SecretKeys
    /\ params = EmptyMap
    /\ call = NoCall
    /\ request = NoRequest
    /\ log = <<>>
    /\ result = NoResult
    /\ other = EmptyMap
    /\ canon = <<build_query_string(EmptyMap), build_query_string(EmptyMap)>>
    /\ source = <<>>
    /\ encoded = percent_encode(<<>>)

Next == InsertParam \/ CallGet \/ CallGetSigned \/ CallPostSigned \/ Return

Spec == Init /\ [][Next]_vars

\* one client, for the runs that exercise the pure functions alone
PureInit ==
    /\ Init
    /\ api_key = <<"a", "k", "-", "1">>
    /\ secret_key = <<"s", "_", "1">>

(***************************************************************************)
(* Canonicalization alone: two maps filled by independent sequences of     *)
(* inserts, and build_query_string applied to each.                        *)
(***************************************************************************)
\* "Type" sorts before every lower-case key, and "sym" is a prefix of "symbol"
CanonKeys == {<<"s", "y", "m", "b", "o", "l">>, <<"t", "y", "p", "e">>, <<"T", "y", "p", "e">>, <<"s", "y", "m">>}

CanonValues == {<<"b", "t", "c", "u", "s", "d", "t">>, <<"b", "u", "y">>, <<"a", " ", "b", "&", "c", "=", "d">>}

CanonInsert ==
    \E k \in CanonKeys, v \in CanonValues :
        /\ k \in Keys(params) \/ Len(params) < MaxEntries
        /\ params' = BTreeInsert(params, k, v)
        /\ canon' = <<build_query_string(params'), canon[2]>>
        /\ UNCHANGED <<api_key, secret_key, callVars, other, source, encoded>>

CanonInsertOther ==
    \E k \in CanonKeys, v \in CanonValues :
        /\ k \in Keys(other) \/ Len(other) < MaxEntries
        /\ other' = BTreeInsert(other, k, v)
        /\ canon' = <<canon[1], build_query_string(other')>>
        /\ UNCHANGED <<api_key, secret_key, callVars, params, source, encoded>>

CanonNext == CanonInsert \/ CanonInsertOther

SpecCanon == PureInit /\ [][CanonNext]_vars

(***************************************************************************)
(* Percent-encoding alone: a string grown a character at a time, and       *)
(* percent_encode applied to it.                                           *)
(***************************************************************************)
EncodeAlphabet ==
    {"+", ",", " ", "&", "=", "/", "?", "#", "%", ":", "@", "a", "2", "B"}

EncodeAppend ==
    \E c \in EncodeAlphabet :
        /\ Len(source) < MaxLen
        /\ source' = Append(source, c)
        /\ encoded' = percent_encode(source')
        /\ UNCHANGED <<api_key, secret_key, callVars, params, other, canon>>

EncodeReset ==
    /\ source # <<>>
    /\ source' = <<>>
    /\ encoded' = percent_encode(source')
    /\ UNCHANGED <<api_key, secret_key, callVars, params, other, canon>>

EncodeNext == EncodeAppend \/ EncodeReset

SpecEncode == PureInit /\ [][EncodeNext]_vars

(***************************************************************************)
(* Properties of canonicalization, under SpecCanon.                        *)
(***************************************************************************)
\* the entry of m at i as it is written in a query: the key as it is, '=',
\* the value percent-encoded
Pair(m, i) == m[i][1] \o <<"=">> \o percent_encode(m[i][2])

RECURSIVE PairOffset(_, _)
\* where the i-th entry starts in a query that holds the entries of m in
\* order with one separator between neighbours
PairOffset(m, i) ==
    IF i = 1 THEN 0 ELSE PairOffset(m, i - 1) + Len(Pair(m, i - 1)) + 1

\* q is the entries of m, in order, each as key=percent_encode(value), with
\* exactly one '&' between neighbours and nothing before, after or besides
IsQueryOf(q, m) ==
    /\ m = EmptyMap => q = <<>>
    /\ m # EmptyMap => Len(q) = PairOffset(m, Len(m)) + Len(Pair(m, Len(m)))
    /\ \A i \in DOMAIN m :
          /\ PairOffset(m, i) + Len(Pair(m, i)) <= Len(q)
          /\ SubSeq(q, PairOffset(m, i) + 1, PairOffset(m, i) + Len(Pair(m, i))) = Pair(m, i)
          /\ i > 1 => q[PairOffset(m, i)] = "&"

\* the keys of m ascend strictly in byte order
KeysAscend(m) == \A i, j \in DOMAIN m : i < j => StrLess(m[i][1], m[j][1])

ExampleEntries == {<<<<"s", "y", "m", "b", "o", "l">>, <<"b", "t", "c", "u", "s", "d", "t">>>>, <<<<"t", "y", "p", "e">>, <<"b", "u", "y">>>>}

ExampleQuery == <<"s", "y", "m", "b", "o", "l", "=", "b", "t", "c", "u", "s", "d", "t", "&", "t", "y", "p", "e", "=", "b", "u", "y">>

\* C3: build_query_string writes the entries in ascending byte order of
\* key, each as key=percent_encode(value) with the key unencoded, joined by
\* single '&' with no leading or trailing separator; the empty map gives
\* the empty string and {symbol: btcusdt, type: buy} gives
\* symbol=btcusdt&type=buy.
C3_CanonicalForm ==
    /\ KeysAscend(params)
    /\ IsQueryOf(canon[1], params)
    /\ params = EmptyMap => canon[1] = <<>>
    /\ Entries(params) = ExampleEntries => canon[1] = ExampleQuery

\* a map of two entries, the first key an upper-case one, one value
\* with characters that are escaped, has been canonicalized
C3_Witness ==
    /\ Len(params) = 2
    /\ params[1][1] = <<"T", "y", "p", "e">>
    /\ params[2][2] = <<"a", " ", "b", "&", "c", "=", "d">>
    /\ canon[1] = <<"T", "y", "p", "e">> \o <<"=">> \o <<"b", "t", "c", "u", "s", "d", "t">> \o <<"&">> \o params[2][1] \o <<"=", "a", "%", "2", "0", "b", "&", "c", "%", "3", "D", "d">>

\* C4: two sequences of inserts that end in the same key/value pairs give
\* byte-identical canonical queries.
C4_OrderIndependent ==
    Entries(params) = Entries(other) => canon[1] = canon[2]

\* both maps hold the example's two entries and both were canonicalized
\* to the example's query
C4_Witness ==
    /\ Entries(params) = ExampleEntries
    /\ Entries(other) = ExampleEntries
    /\ canon = <<ExampleQuery, ExampleQuery>>

(***************************************************************************)
(* Properties of percent-encoding, under SpecEncode.                       *)
(***************************************************************************)
\* the characters C9 says are always escaped, '%' apart
MustEscape == {"+", ",", " ", "&", "=", "/", "?", "#", ":", "@"}

HexChars == {HexDigits[i] : i \in DOMAIN HexDigits}

\* every '%' of s starts a %XX escape
PercentsAreEscapes(s) ==
    \A i \in DOMAIN s :
        s[i] = "%" => i + 2 <= Len(s) /\ s[i + 1] \in HexChars /\ s[i + 2] \in HexChars

\* the number of escapes in the encoding of s, were every character of
\* MustEscape and '%' escaped
EscapesDue(s) == Cardinality({i \in DOMAIN s : s[i] \in MustEscape \cup {"%"}})

\* C9: percent_encode escapes every '+', ',', space and reserved URI
\* character ('&', '=', '/', '?', '#', '%', ':', '@' among them), so none is
\* left unescaped in the output; and an output that holds an escape changes
\* when it is encoded again.
C9_EscapesAllReserved ==
    /\ \A i \in DOMAIN encoded : encoded[i] \notin MustEscape
    /\ PercentsAreEscapes(encoded)
    /\ Len(encoded) = Len(source) + 2 * EscapesDue(source)
    /\ (\E i \in DOMAIN encoded : encoded[i] = "%") => percent_encode(encoded) # encoded

(***************************************************************************)
(* Properties of the client calls, under Spec.                             *)
(***************************************************************************)
Signed == call.op \in {"get_signed", "post_signed"}

Method == IF call.op = "post_signed" THEN <<"P", "O", "S", "T">> ELSE <<"G", "E", "T">>

\* the positions of q at which an entry with key k starts: the start of q
\* or just after a '&', followed by k and '='
EntryStarts(q, k) ==
    {i \in DOMAIN q :
        /\ i = 1 \/ q[i - 1] = "&"
        /\ i + Len(k) <= Len(q)
        /\ SubSeq(q, i, i + Len(k)) = k \o <<"=">>}

\* q holds the entry k=percent_encode(v), once, and no other entry with key k
HoldsOnce(q, k, v) ==
    /\ Cardinality(EntryStarts(q, k)) = 1
    /\ \A i \in EntryStarts(q, k) :
          LET e == k \o <<"=">> \o percent_encode(v)
          IN  /\ i + Len(e) - 1 <= Len(q)
              /\ SubSeq(q, i, i + Len(e) - 1) = e
              /\ i + Len(e) - 1 < Len(q) => q[i + Len(e)] = "&"

\* C1: whatever the caller's parameters (none, or some under the auth
\* keys), the canonical query of get_signed and post_signed holds exactly
\* one entry for each auth key, AccessKeyId = api_key, SignatureMethod =
\* HmacSHA256, SignatureVersion = 2, Timestamp = the timestamp of the clock,
\* and every other parameter of the caller, all sorted by key.
C1_AuthParameters ==
    Signed =>
        /\ HoldsOnce(call.query, AccessKeyId, api_key)
        /\ HoldsOnce(call.query, SignatureMethod, <<"H", "m", "a", "c", "S", "H", "A", "2", "5", "6">>)
        /\ HoldsOnce(call.query, SignatureVersion, <<"2">>)
        /\ HoldsOnce(call.query, Timestamp, get_timestamp(call.utc_time))
        /\ \A i \in DOMAIN params :
              params[i][1] \notin AuthKeys =>
                  HoldsOnce(call.query, params[i][1], params[i][2])
        /\ Keys(call.params) = Keys(params) \cup AuthKeys
        /\ Len(call.params) = Cardinality(Keys(call.params))
        /\ KeysAscend(call.params)
        /\ IsQueryOf(call.query, call.params)

\* a signed call whose caller passed its own AccessKeyId and Timestamp
C1_Witness ==
    /\ Signed
    /\ Keys(params) = {AccessKeyId, Timestamp}
    /\ \A i \in DOMAIN params : params[i][2] # api_key

C5_GetUsesCanonicalQuery ==
    call.op = "get" =>
        request.url = <<"h", "t", "t", "p", "s", ":", "/", "/">> \o HUOBI_API_HOST \o call.endpoint \o <<"?">>
                          \o build_query_string(params)

\* the last character of s, or "" for the empty string
LastChar(s) == IF s = <<>> THEN "" ELSE s[Len(s)]

\* C6: no request target of get, get_signed or post_signed has a malformed
\* join: none ends in a dangling '?', none ends in '&', none holds '&&' or
\* '?&'.
C6_NoMalformedJoin ==
    call.op # "none" =>
        /\ LastChar(call.url) # "?"
        /\ LastChar(call.url) # "&"
        /\ ~Occurs(<<"&", "&">>, call.url)
        /\ ~Occurs(<<"?", "&">>, call.url)

\* C7: a call ends in exactly one of: a transport error when the dispatch
\* or the read of the body fails; a deserialization error when the body
\* does not parse as the envelope; an API error with the envelope's
\* contents when status is present and "error"; else success, with the
\* body text unchanged.
C7_Outcome ==
    call.op # "none" =>
        LET resp == call.response
            e == ParseEnvelope(resp.text)
        IN  /\ result.kind \in {"TransportError", "DeserializeError", "ApiError", "Ok"}
            /\ result.kind = "TransportError" <=> (~call.sent \/ resp.kind # "body")
            /\ result.kind = "DeserializeError" <=>
                  (call.sent /\ resp.kind = "body" /\ ~e.parsed)
            /\ result.kind = "ApiError" <=>
                  (call.sent /\ resp.kind = "body" /\ e.parsed /\ e.status = Some(<<"e", "r", "r", "o", "r">>))
            /\ result.kind = "ApiError" => Occurs(DebugEnvelope(e), result.value)
            /\ result.kind = "Ok" <=>
                  (call.sent /\ resp.kind = "body" /\ e.parsed /\ e.status # Some(<<"e", "r", "r", "o", "r">>))
            /\ result.kind = "Ok" => result.value = resp.text

\* a call got a body whose status is present and is not "error", and
\* returned that body
C7_Witness ==
    /\ call.op = "get_signed"
    /\ call.response = [kind |-> "body", text |-> BodyOk]
    /\ result = Ok(BodyOk)

\* C8: a request of post_signed has a JSON body and declares
\* application/json as content type and as accept; a request of get_signed
\* has no body and a Content-Type of application/x-www-form-urlencoded.
C8_BodyAndHeaders ==
    /\ (call.op = "post_signed" /\ call.sent) =>
          /\ request.body # None
          /\ "content-type" \in DOMAIN request.headers
          /\ "accept" \in DOMAIN request.headers
          /\ request.headers["content-type"] = "application/json"
          /\ request.headers["accept"] = "application/json"
    /\ (call.op = "get_signed" /\ call.sent) =>
          /\ request.body = None
          /\ "content-type" \in DOMAIN request.headers
          /\ request.headers["content-type"] = "application/x-www-form-urlencoded"

\* the header values the client ever sets
StaticHeaderValues == {"rs", "application/json", "application/x-www-form-urlencoded"}

\* secret_key is in nothing the call sent, logged or returned
NoSecretOut ==
    /\ ~Occurs(secret_key, call.url)
    /\ ~Occurs(secret_key, request.url)
    /\ request.body # None => ~Occurs(secret_key, request.body[2])
    /\ \A h \in DOMAIN request.headers : request.headers[h] \in StaticHeaderValues
    /\ \A i \in DOMAIN log : ~Occurs(secret_key, log[i].text)
    /\ ~Occurs(secret_key, result.value)

\* secret_key is the key the message was signed under
SecretKeysTheHmac ==
    Signed => call.signature = sign_hmac_sha256_base64(secret_key, call.message)
                /\ ~Occurs(secret_key, call.message)

\* C10: through any sequence of calls secret_key is in no request URL,
\* header or body, no log record and no error message; it is only the key
\* of the HMAC; and no call changes api_key or secret_key.
C10_SecretStaysSecret ==
    /\ [](NoSecretOut /\ SecretKeysTheHmac)
    /\ [][api_key' = api_key /\ secret_key' = secret_key]_vars

\* a signed POST was dispatched, logged its request and returned an API
\* error
C10_Witness ==
    /\ call.op = "post_signed"
    /\ call.sent
    /\ Len(log) >= 3
    /\ result.kind = "ApiError"

====
